---------------------------- MODULE Spec2Model ----------------------------
(***************************************************************************)
(* A state-machine model of rtcbot/base.py: the subscription producer      *)
(* (fan-out), the subscription consumer (switchable wait loop) and the     *)
(* thread-bridged producer.                                                *)
(*                                                                         *)
(* The asyncio event loop is single threaded: a synchronous method is one  *)
(* atomic action; a coroutine is cut at its awaits; a callback handed to   *)
(* the loop (call_soon, a task step, a future's done-callback) is an       *)
(* action of its own that runs later.  Worker threads are cut at every     *)
(* access to shared state.                                                 *)
(***************************************************************************)
EXTENDS Integers, Sequences, FiniteSets, TLC

(***************************************************************************)
(* Bounds of the model.                                                    *)
(***************************************************************************)
MaxPuts == 2        \* broadcasts to the subscribers a caller passes in
MaxGetPuts == 3     \* broadcasts to the queues read through get()
MaxItems == 2       \* items put into the subscriptions of a consumer
MaxStops == 1       \* direct-feed queues a consumer builds after __init__
MaxTestPuts == 2    \* items the test puts into testQueue
MaxSubmits == 2     \* waits the consumer's worker thread submits
MaxProcPuts == 2    \* items the worker process puts on its queue
MaxFails == 1       \* waits of a consumer that end with an error

(***************************************************************************)
(* Objects handed to subscribe().  An object is classified by capability:  *)
(* hasPut = callable(getattr(o, "put_nowait", None)),                      *)
(* isCoro = inspect.iscoroutinefunction(o).                                *)
(***************************************************************************)
NoObj == [id |-> 0, hasPut |-> FALSE, isCoro |-> FALSE]

Queue1 == [id |-> 1, hasPut |-> TRUE, isCoro |-> FALSE]
SyncCallback == [id |-> 3, hasPut |-> FALSE, isCoro |-> FALSE]
AsyncCallback == [id |-> 4, hasPut |-> FALSE, isCoro |-> TRUE]

\* Objects the caller builds and passes to subscribe(o) / unsubscribe(o).
UserObjs == { Queue1, SyncCallback, AsyncCallback }

\* The k-th queue the default subscription class builds for get().
FreshQueue(k) == [id |-> 10 + k, hasPut |-> TRUE, isCoro |-> FALSE]

DefaultObjs == { FreshQueue(1), FreshQueue(2), FreshQueue(3) }

\* The queues the default subscription class builds for subscribe().
UserFreshObjs == { [id |-> 21, hasPut |-> TRUE, isCoro |-> FALSE] }

FreshObjs == DefaultObjs \cup UserFreshObjs

AllObjs == UserObjs \cup FreshObjs

VARIABLES
    \* ---- BaseSubscriptionProducer
    subscriptions,       \* self.__subscriptions
    callbacks,           \* self.__callbacks
    cocallbacks,         \* self.__cocallbacks
    defaultSubscription, \* self.__defaultSubscription (NoObj is None)
    pShouldClose,        \* self._shouldClose
    pReady,              \* self._ready
    qbuf,                \* content of each queue-like object
    calls,               \* arguments each synchronous callback was called with
    futures,             \* ensure_future(c(element)) not yet run, in loop order
    corun,               \* arguments of the coroutine invocations that have run
    nfresh,              \* queues built so far for get()
    userFresh,           \* queues returned to the caller by subscribe()
    nput,                \* broadcasts so far; the n-th broadcast item is n
    getPc,               \* get(): "idle" or "waiting" (suspended in queue.get())
    getQ,                \* the queue the suspended get() waits on
    unsubResult,         \* the latest API call, if unsubscribe: [obj, raised]
    \* ---- observers of the producer (history, not program state)
    reg,                 \* objects subscribed and not unsubscribed since
    resub,               \* the object of reg that was last subscribed again
    expected,            \* per object: items broadcast while it was in reg
    taken,               \* per queue: items get() has taken out of it
    bornAt,              \* per fresh queue: nput when it was built
    getLog,              \* results of get(): [q, item, mark]
    getMark,             \* what the running get() saw when it was called
    unsubSince,          \* unsubscribe() was called since get() was last called
    resetSince,          \* ... or unsubscribeAll() or close()
    unsubFloor,          \* nput at the latest unsubscribe() with no argument
    \* ---- BaseSubscriptionConsumer
    cSubscription,       \* self._subscription, the active subscription
    directPut,           \* self.__directPutSubscription
    cShouldClose,        \* self._shouldClose
    cReady,              \* self._ready
    getTask,             \* self._getTask: [st, sub, res, mustCancel]
    cPc,                 \* _get(): "idle", or "await" (at await self._getTask)
    cbuf,                \* content of each queue the consumer can read
    ndirect,             \* direct-feed queues built by stop()
    nitem,               \* items put so far; the n-th item put is n
    \* ---- observers of the consumer (history, not program state)
    cRet,                \* how the latest _get() that ended, ended
    cSwapped,            \* putSubscription(new) swapped during the running _get()
    owed,                \* item of the put_nowait that detached a subscription
    nfail,               \* waits that ended with an error of the subscription
    \* ---- ThreadedSubscriptionProducer
    wpc,                 \* position of the worker thread in _producer()
    wItem,               \* item the worker took from testQueue
    testQ,               \* self.testQueue
    handles,             \* call_soon_threadsafe callbacks not yet run
    closePc,             \* position of the loop thread in close()
    ntest,               \* items put into testQueue so far
    \* ---- observers of the threaded producer
    handed,              \* items handed to _put_nowait before close() was called
    early,               \* Queue1 was subscribed before the first item
    \* ---- ThreadedSubscriptionConsumer
    interp,              \* the Python version that runs the program
    ypc,                 \* position of the worker thread in _consumer()/_get()
    ylock,               \* self._taskLock: "free" or "worker"
    yh,                  \* every wait handle submitted so far, in order
    ycur,                \* self._getTask: index into yh (0 is None)
    yout,                \* items the worker put into testQueue
    yclose,              \* position of the loop thread in close()
    \* ---- ProcessSubscriptionProducer
    procPc,              \* position of the worker process in __producerSetup()
    procEnd,             \* how the worker process ended
    prodQ,               \* self._producerQueue
    rpc,                 \* position of the bridging thread in __queueReader()
    nproc                \* items the worker process has put so far

pvars == << subscriptions, callbacks, cocallbacks, defaultSubscription,
            pShouldClose, pReady, qbuf, calls, futures, corun, nfresh,
            userFresh, nput, getPc, getQ, unsubResult, reg, resub, expected,
            taken, bornAt, getLog, getMark, unsubSince, resetSince, unsubFloor >>

cvars == << cSubscription, directPut, cShouldClose, cReady, getTask, cPc,
            cbuf, ndirect, nitem, cRet, cSwapped, owed, nfail >>

tvars == << wpc, wItem, testQ, handles, closePc, ntest, handed, early >>

yvars == << interp, ypc, ylock, yh, ycur, yout, yclose >>

xvars == << procPc, procEnd, prodQ, rpc, nproc >>

vars == << pvars, cvars, tvars, yvars, xvars >>

\* The three registries and the default subscription, as one value.
Registries == << subscriptions, callbacks, cocallbacks, defaultSubscription >>

\* raised: unsubscribe(obj) ended with the KeyError of set.remove.
UnsubResult(o, raised) == [obj |-> o, raised |-> raised]

NoResult == UnsubResult(NoObj, FALSE)

NoMark == [afterUnsub |-> FALSE, afterReset |-> FALSE, floor |-> 0]

(***************************************************************************)
(* BaseSubscriptionProducer.__init__(ready = r)                            *)
(***************************************************************************)
ProducerInit(r) ==
    /\ subscriptions = {}
    /\ callbacks = {}
    /\ cocallbacks = {}
    /\ defaultSubscription = NoObj
    /\ pShouldClose = FALSE
    /\ pReady = r
    /\ qbuf = [o \in AllObjs |-> << >>]
    /\ calls = [o \in AllObjs |-> << >>]
    /\ futures = << >>
    /\ corun = [o \in AllObjs |-> << >>]
    /\ nfresh = 0
    /\ userFresh = {}
    /\ nput = 0
    /\ getPc = "idle"
    /\ getQ = NoObj
    /\ unsubResult = NoResult
    /\ reg = {}
    /\ resub = NoObj
    /\ expected = [o \in AllObjs |-> << >>]
    /\ taken = [o \in AllObjs |-> << >>]
    /\ bornAt = [o \in AllObjs |-> 0]
    /\ getLog = << >>
    /\ getMark = NoMark
    /\ unsubSince = FALSE
    /\ resetSince = FALSE
    /\ unsubFloor = 0

(***************************************************************************)
(* subscribe(): the registry an object goes to.                            *)
(***************************************************************************)
ClassifyBoth(o) ==
    (IF o.hasPut THEN {"subscriptions"} ELSE {})
        \cup (IF o.isCoro THEN {"cocallbacks"} ELSE {"callbacks"})

Classify(o) ==
    IF o.hasPut THEN {"subscriptions"}
    ELSE IF o.isCoro THEN {"cocallbacks"}
    ELSE {"callbacks"}

\* subscribe(o) for an object o (a given one, or one just built).
Register(o) ==
    /\ subscriptions' =
          IF "subscriptions" \in Classify(o) THEN subscriptions \cup {o}
          ELSE subscriptions
    /\ cocallbacks' =
          IF "cocallbacks" \in Classify(o) THEN cocallbacks \cup {o}
          ELSE cocallbacks
    /\ callbacks' =
          IF "callbacks" \in Classify(o) THEN callbacks \cup {o}
          ELSE callbacks

PSubscribe(o) ==
    /\ Register(o)
    /\ reg' = reg \cup {o}
    /\ resub' = IF o \in reg THEN o ELSE resub
    /\ unsubResult' = NoResult
    /\ UNCHANGED << defaultSubscription, pShouldClose, pReady, qbuf, calls,
                    futures, corun, nfresh, userFresh, nput, getPc, getQ,
                    expected, taken, bornAt, getLog, getMark,
                    unsubSince, resetSince, unsubFloor >>
    /\ UNCHANGED << cvars, tvars >>
    /\ UNCHANGED << yvars, xvars >>

\* subscribe() with no argument: a queue of the default class is built.
PSubscribeNew ==
    /\ \E o \in UserFreshObjs \ userFresh :
          /\ Register(o)
          /\ reg' = reg \cup {o}
          /\ userFresh' = userFresh \cup {o}
          /\ bornAt' = [bornAt EXCEPT ![o] = nput]
    /\ unsubResult' = NoResult
    /\ UNCHANGED << nfresh, resub, defaultSubscription, pShouldClose, pReady,
                    qbuf, calls, futures, corun, nput, getPc, getQ, expected,
                    taken, getLog, getMark, unsubSince, resetSince,
                    unsubFloor >>
    /\ UNCHANGED << cvars, tvars >>
    /\ UNCHANGED << yvars, xvars >>

(***************************************************************************)
(* unsubscribe(o): set.remove raises KeyError when o is not a member.      *)
(***************************************************************************)
ClassifyRemove(o) ==
    IF o.hasPut THEN "subscriptions"
    ELSE IF o.isCoro THEN "cocallbacks"
    ELSE "callbacks"

RegistryOf(name) ==
    CASE name = "subscriptions" -> subscriptions
      [] name = "cocallbacks" -> cocallbacks
      [] OTHER -> callbacks

RemoveRaisesNever(o, set) == FALSE

RemoveRaises(o, set) == o \notin set

\* The registries after unsubscribe(o) returned normally.
Removed(o) ==
    /\ subscriptions' =
          IF ClassifyRemove(o) = "subscriptions" THEN subscriptions \ {o}
          ELSE subscriptions
    /\ cocallbacks' =
          IF ClassifyRemove(o) = "cocallbacks" THEN cocallbacks \ {o}
          ELSE cocallbacks
    /\ callbacks' =
          IF ClassifyRemove(o) = "callbacks" THEN callbacks \ {o}
          ELSE callbacks

PUnsubscribe(o) ==
    /\ o \in UserObjs \cup userFresh
    /\ IF RemoveRaises(o, RegistryOf(ClassifyRemove(o)))
       THEN /\ unsubResult' = UnsubResult(o, TRUE)
            /\ UNCHANGED << subscriptions, callbacks, cocallbacks, reg,
                            resub >>
       ELSE /\ Removed(o)
            /\ reg' = reg \ {o}
            /\ resub' = IF resub = o THEN NoObj ELSE resub
            /\ unsubResult' = UnsubResult(o, FALSE)
    /\ UNCHANGED << defaultSubscription, pShouldClose, pReady, qbuf, calls,
                    futures, corun, nfresh, userFresh, nput, getPc, getQ,
                    expected, taken, bornAt, getLog, getMark, unsubSince,
                    resetSince, unsubFloor >>
    /\ UNCHANGED << cvars, tvars >>
    /\ UNCHANGED << yvars, xvars >>

KeepDefault == defaultSubscription

\* self.__defaultSubscription = None
ForgetDefault == NoObj

\* unsubscribe() with no argument: forget the default subscription.
PUnsubscribeDefault ==
    /\ IF defaultSubscription = NoObj
       THEN /\ unsubResult' = NoResult
            /\ UNCHANGED << subscriptions, callbacks, cocallbacks,
                            defaultSubscription, reg, resub >>
       ELSE IF RemoveRaises(defaultSubscription,
                            RegistryOf(ClassifyRemove(defaultSubscription)))
       THEN /\ unsubResult' = UnsubResult(NoObj, TRUE)
            /\ UNCHANGED << subscriptions, callbacks, cocallbacks,
                            defaultSubscription, reg, resub >>
       ELSE /\ Removed(defaultSubscription)
            /\ reg' = reg \ {defaultSubscription}
            /\ resub' = IF resub = defaultSubscription THEN NoObj ELSE resub
            /\ defaultSubscription' = ForgetDefault
            /\ unsubResult' = NoResult
    /\ unsubFloor' = nput
    /\ unsubSince' = TRUE
    /\ resetSince' = TRUE
    /\ UNCHANGED << pShouldClose, pReady, qbuf, calls, futures, corun, nfresh,
                    userFresh, nput, getPc, getQ, expected, taken, bornAt,
                    getLog, getMark >>
    /\ UNCHANGED << cvars, tvars >>
    /\ UNCHANGED << yvars, xvars >>

ClearedButCallbacks ==
    /\ subscriptions' = {}
    /\ callbacks' = callbacks
    /\ cocallbacks' = {}
    /\ defaultSubscription' = NoObj

\* The registries after unsubscribeAll().
Cleared ==
    /\ subscriptions' = {}
    /\ callbacks' = {}
    /\ cocallbacks' = {}
    /\ defaultSubscription' = NoObj

PUnsubscribeAll ==
    /\ Cleared
    /\ reg' = {}
    /\ resub' = NoObj
    /\ resetSince' = TRUE
    /\ unsubResult' = NoResult
    /\ UNCHANGED << pShouldClose, pReady, qbuf, calls, futures, corun, nfresh,
                    userFresh, nput, getPc, getQ, expected, taken,
                    bornAt, getLog, getMark, unsubSince, unsubFloor >>
    /\ UNCHANGED << cvars, tvars >>
    /\ UNCHANGED << yvars, xvars >>

\* BaseSubscriptionProducer.close()
PClose ==
    /\ pShouldClose' = TRUE
    /\ Cleared
    /\ pReady' = FALSE
    /\ reg' = {}
    /\ resub' = NoObj
    /\ resetSince' = TRUE
    /\ unsubResult' = NoResult
    /\ UNCHANGED << qbuf, calls, futures, corun, nfresh, userFresh, nput,
                    getPc, getQ, expected, taken, bornAt, getLog,
                    getMark, unsubSince, unsubFloor >>
    /\ UNCHANGED << cvars, tvars >>
    /\ UNCHANGED << yvars, xvars >>

(***************************************************************************)
(* _put_nowait(element): the three loops of the broadcast.                 *)
(***************************************************************************)
\* Every enumeration of the finite set S: a Python set iterates in some order.
Orders(S) ==
    { f \in [1..Cardinality(S) -> S] : \A i, j \in 1..Cardinality(S) :
                                            i # j => f[i] # f[j] }

PutSubscriptionsLatestOnly(x) ==
    [o \in AllObjs |-> IF o \in subscriptions THEN << x >> ELSE qbuf[o]]

\* for s in self.__subscriptions: s.put_nowait(element)
PutSubscriptions(x) ==
    [o \in AllObjs |->
        IF o \in subscriptions THEN Append(qbuf[o], x) ELSE qbuf[o]]

CallCallbacksTwice(x) ==
    [o \in AllObjs |->
        IF o \in callbacks THEN Append(Append(calls[o], x), x) ELSE calls[o]]

\* for c in self.__callbacks: c(element)
CallCallbacks(x) ==
    [o \in AllObjs |->
        IF o \in callbacks THEN Append(calls[o], x) ELSE calls[o]]

\* for c in self.__cocallbacks: asyncio.ensure_future(c(element))
ScheduleCoroutines(x, order) ==
    futures \o [i \in 1..Len(order) |-> [obj |-> order[i], item |-> x]]

\* The whole of BaseSubscriptionProducer._put_nowait(x).
Broadcast(x) ==
    /\ qbuf' = PutSubscriptions(x)
    /\ calls' = CallCallbacks(x)
    /\ \E order \in Orders(cocallbacks) :
          futures' = ScheduleCoroutines(x, order)
    /\ expected' = [o \in AllObjs |->
                      IF o \in reg THEN Append(expected[o], x) ELSE expected[o]]

\* A subclass (SubscriptionProducer.put_nowait) broadcasts the next item;
\* max bounds the run.
PPut(max) ==
    /\ nput < max
    /\ Broadcast(nput + 1)
    /\ nput' = nput + 1
    /\ unsubResult' = NoResult
    /\ UNCHANGED << subscriptions, callbacks, cocallbacks, defaultSubscription,
                    pShouldClose, pReady, corun, nfresh, userFresh, getPc,
                    getQ, reg, resub, taken, bornAt, getLog,
                    getMark, unsubSince, resetSince, unsubFloor >>
    /\ UNCHANGED << cvars, tvars >>
    /\ UNCHANGED << yvars, xvars >>

\* The loop runs the oldest scheduled coroutine callback.
PRunFuture ==
    /\ futures # << >>
    /\ corun' = [corun EXCEPT ![Head(futures).obj] =
                                  Append(@, Head(futures).item)]
    /\ futures' = Tail(futures)
    /\ UNCHANGED << subscriptions, callbacks, cocallbacks, defaultSubscription,
                    pShouldClose, pReady, qbuf, calls, nfresh, userFresh, nput,
                    getPc, getQ, unsubResult, reg, resub, expected, taken, bornAt,
                    getLog, getMark, unsubSince, resetSince, unsubFloor >>
    /\ UNCHANGED << cvars, tvars >>
    /\ UNCHANGED << yvars, xvars >>

(***************************************************************************)
(* get(): __defaultSubscribe(), then await self.__defaultSubscription.get()*)
(* asyncio.Queue.get() returns at once when the queue holds an item and    *)
(* suspends otherwise.  One caller awaits get() at a time.                 *)
(***************************************************************************)
\* What get() returns from queue q, with what its call saw.
GetEntry(q, mark) == [q |-> q, item |-> Head(qbuf[q]), mark |-> mark]

\* __defaultSubscribe(): build and register the default subscription if absent.
DefaultSubscribe ==
    IF defaultSubscription = NoObj
    THEN /\ Register(FreshQueue(nfresh + 1))
         /\ defaultSubscription' = FreshQueue(nfresh + 1)
         /\ reg' = reg \cup {FreshQueue(nfresh + 1)}
         /\ bornAt' = [bornAt EXCEPT ![FreshQueue(nfresh + 1)] = nput]
         /\ nfresh' = nfresh + 1
    ELSE UNCHANGED << subscriptions, callbacks, cocallbacks,
                      defaultSubscription, reg, bornAt, nfresh >>

PGetCall ==
    /\ getPc = "idle"
    /\ defaultSubscription = NoObj => nfresh < Cardinality(DefaultObjs)
    /\ DefaultSubscribe
    /\ LET d == defaultSubscription'
           mark == [afterUnsub |-> unsubSince, afterReset |-> resetSince,
                    floor |-> unsubFloor]
       IN IF qbuf[d] # << >>
          THEN /\ getLog' = Append(getLog, GetEntry(d, mark))
               /\ qbuf' = [qbuf EXCEPT ![d] = Tail(@)]
               /\ taken' = [taken EXCEPT ![d] = Append(@, Head(qbuf[d]))]
               /\ UNCHANGED << getPc, getQ, getMark >>
          ELSE /\ getPc' = "waiting"
               /\ getQ' = d
               /\ getMark' = mark
               /\ UNCHANGED << getLog, qbuf, taken >>
    /\ unsubSince' = FALSE
    /\ resetSince' = FALSE
    /\ unsubResult' = NoResult
    /\ UNCHANGED << pShouldClose, pReady, calls, futures, corun, userFresh,
                    nput, resub, expected, unsubFloor >>
    /\ UNCHANGED << cvars, tvars >>
    /\ UNCHANGED << yvars, xvars >>

\* The suspended get() is resumed once its queue holds an item.
PGetWake ==
    /\ getPc = "waiting"
    /\ qbuf[getQ] # << >>
    /\ getLog' = Append(getLog, GetEntry(getQ, getMark))
    /\ qbuf' = [qbuf EXCEPT ![getQ] = Tail(@)]
    /\ taken' = [taken EXCEPT ![getQ] = Append(@, Head(qbuf[getQ]))]
    /\ getPc' = "idle"
    /\ getQ' = NoObj
    /\ getMark' = NoMark
    /\ UNCHANGED << subscriptions, callbacks, cocallbacks, defaultSubscription,
                    pShouldClose, pReady, calls, futures, corun, nfresh,
                    userFresh, nput, unsubResult, reg, resub, expected, bornAt,
                    unsubSince, resetSince, unsubFloor >>
    /\ UNCHANGED << cvars, tvars >>
    /\ UNCHANGED << yvars, xvars >>

(***************************************************************************)
(* BaseSubscriptionConsumer.  A subscription is anything with an awaitable *)
(* get(); here asyncio.Queue objects: the ones a caller passes to          *)
(* putSubscription and the direct-feed queues the consumer builds.         *)
(***************************************************************************)
NoSub == [kind |-> "none", n |-> 0]

Ext1 == [kind |-> "ext", n |-> 1]
Ext2 == [kind |-> "ext", n |-> 2]

\* Subscriptions the caller builds and passes to putSubscription.
ExtSubs == { Ext1, Ext2 }

\* The k-th queue built by directPutSubscriptionType(): __init__ builds the
\* first, every stop() one more.
Direct(k) == [kind |-> "direct", n |-> k]

DirectSubs == { Direct(k) : k \in 0..MaxStops }

AllSubs == ExtSubs \cup DirectSubs

NoItem == 0

\* asyncio.Task states of self._getTask:
\*   "new"      created, first step not yet run by the loop
\*   "waiting"  suspended in Queue.get() on an empty queue
\*   "woken"    its getter was resolved by put_nowait, step not yet run
\*   "done"     finished with result res
\*   "cancelled"
\* mustCancel: cancel() was called and has not yet been delivered.
NoTask == [st |-> "none", sub |-> NoSub, res |-> NoItem, mustCancel |-> FALSE]

\* No _get() has ended yet.
NoRet ==
    [kind |-> "none", val |-> NoItem, src |-> NoSub, active |-> NoSub,
     afterClose |-> FALSE, swapped |-> FALSE, owed |-> NoItem]

NewTask(s) == [st |-> "new", sub |-> s, res |-> NoItem, mustCancel |-> FALSE]

\* self._getTask is not None and not self._getTask.done()
TaskLive(t) == t.st \in {"new", "waiting", "woken"}

CancelNever(t) == t

\* if self._getTask is not None and not self._getTask.done(): cancel()
CancelLive(t) == IF TaskLive(t) THEN [t EXCEPT !.mustCancel = TRUE] ELSE t

\* Queue.put_nowait wakes the getter that waits on queue q; a getter that
\* was cancelled is skipped.
WakeGetter(t, q) ==
    IF t.st = "waiting" /\ t.sub = q /\ ~t.mustCancel
    THEN [t EXCEPT !.st = "woken"]
    ELSE t

\* BaseSubscriptionConsumer.__init__(ready = r)
ConsumerInit(r) ==
    /\ directPut = Direct(0)
    /\ cSubscription = Direct(0)
    /\ cShouldClose = FALSE
    /\ getTask = NoTask
    /\ cReady = r
    /\ cPc = "idle"
    /\ cbuf = [q \in AllSubs |-> << >>]
    /\ ndirect = 0
    /\ nitem = 0
    /\ cRet = NoRet
    /\ cSwapped = FALSE
    /\ owed = NoItem
    /\ nfail = 0

\* The `subscription` property.
SubscriptionProperty ==
    IF cSubscription = directPut THEN NoSub ELSE cSubscription

\* The producer behind an external subscription puts the next item into it.
ExtPut(q) ==
    /\ nitem < MaxItems
    /\ cbuf' = [cbuf EXCEPT ![q] = Append(@, nitem + 1)]
    /\ getTask' = WakeGetter(getTask, q)
    /\ nitem' = nitem + 1
    /\ UNCHANGED << cSubscription, directPut, cShouldClose, cReady, cPc,
                    ndirect, cRet, cSwapped, owed, nfail >>
    /\ UNCHANGED << pvars, tvars >>
    /\ UNCHANGED << yvars, xvars >>

SwapTaskKeeps(s) == getTask

\* putSubscription(s): self._getTask after the call.
SwapTask(s) == IF s = cSubscription THEN getTask ELSE CancelLive(getTask)

\* putSubscription(s) called by the user with an external subscription.
CPutSubscription(s) ==
    /\ cSubscription' = s
    /\ getTask' = SwapTask(s)
    /\ cSwapped' = (cSwapped \/ (s # cSubscription /\ cPc = "await"))
    /\ owed' = IF s = cSubscription THEN owed ELSE NoItem
    /\ UNCHANGED << directPut, cShouldClose, cReady, cPc, cbuf, ndirect,
                    nitem, cRet, nfail >>
    /\ UNCHANGED << pvars, tvars >>
    /\ UNCHANGED << yvars, xvars >>

FreshDirectReused == directPut

\* stop(): self.__directPutSubscriptionType() builds a queue that did not
\* exist before.
FreshDirect == Direct(ndirect + 1)

\* stop(): a new direct-feed queue becomes the active subscription.
CStop ==
    /\ ndirect < MaxStops
    /\ directPut' = FreshDirect
    /\ ndirect' = ndirect + 1
    /\ cSubscription' = FreshDirect
    /\ getTask' = SwapTask(FreshDirect)
    /\ owed' = NoItem
    /\ UNCHANGED << cShouldClose, cReady, cPc, cbuf, nitem, cRet, cSwapped,
                    nfail >>
    /\ UNCHANGED << pvars, tvars >>
    /\ UNCHANGED << yvars, xvars >>

NeedsStopAlways == TRUE

NeedsStopNever == FALSE

\* put_nowait: if self._subscription != self.__directPutSubscription
NeedsStop == cSubscription # directPut

\* put_nowait(x), x the next item.
CPutNowait ==
    /\ nitem < MaxItems
    /\ nitem' = nitem + 1
    /\ IF NeedsStop
       THEN /\ ndirect < MaxStops
            /\ directPut' = Direct(ndirect + 1)
            /\ ndirect' = ndirect + 1
            /\ cSubscription' = Direct(ndirect + 1)
            /\ getTask' = SwapTask(Direct(ndirect + 1))
            /\ cbuf' = [cbuf EXCEPT ![Direct(ndirect + 1)] =
                                        Append(@, nitem + 1)]
            /\ owed' = IF cPc = "idle" /\ ~cShouldClose THEN nitem + 1
                              ELSE NoItem
       ELSE /\ cbuf' = [cbuf EXCEPT ![directPut] = Append(@, nitem + 1)]
            /\ getTask' = WakeGetter(getTask, directPut)
            /\ UNCHANGED << directPut, ndirect, cSubscription, owed >>
    /\ UNCHANGED << cShouldClose, cReady, cPc, cRet, cSwapped, nfail >>
    /\ UNCHANGED << pvars, tvars >>
    /\ UNCHANGED << yvars, xvars >>

\* BaseSubscriptionConsumer.close()
CClose ==
    /\ cReady' = FALSE
    /\ cShouldClose' = TRUE
    /\ getTask' = CancelLive(getTask)
    /\ owed' = NoItem
    /\ UNCHANGED << cSubscription, directPut, cPc, cbuf, ndirect, nitem,
                    cRet, cSwapped, nfail >>
    /\ UNCHANGED << pvars, tvars >>
    /\ UNCHANGED << yvars, xvars >>

(***************************************************************************)
(* _get(): while not self._shouldClose: create the task, await it, return  *)
(* its result; on CancelledError loop; after the loop raise                *)
(* SubscriptionClosed.  One caller awaits _get() at a time.                *)
(***************************************************************************)
\* How a _get() ended.  kind "value": it returned val, which its task took
\* from subscription src while active was the active subscription at the
\* return; kind "closed": it raised SubscriptionClosed.
Returned(t) ==
    [kind |-> "value", val |-> t.res, src |-> t.sub, active |-> cSubscription,
     afterClose |-> FALSE, swapped |-> cSwapped, owed |-> owed]

Raised(after) ==
    [kind |-> "closed", val |-> NoItem, src |-> NoSub,
     active |-> cSubscription, afterClose |-> after, swapped |-> cSwapped,
     owed |-> owed]

LoopExitsAlways == TRUE

\* The loop condition of _get() is false.
LoopExits == cShouldClose

\* _get() is called: it raises at once, or creates the task and suspends.
GetCall ==
    /\ cPc = "idle"
    /\ IF LoopExits
       THEN /\ cRet' = Raised(TRUE)
            /\ owed' = NoItem
            /\ UNCHANGED << getTask, cPc >>
       ELSE /\ getTask' = NewTask(cSubscription)
            /\ cPc' = "await"
            /\ UNCHANGED << cRet, owed >>
    /\ cSwapped' = FALSE
    /\ UNCHANGED << cSubscription, directPut, cShouldClose, cReady, cbuf,
                    ndirect, nitem, nfail >>
    /\ UNCHANGED << pvars, tvars >>
    /\ UNCHANGED << yvars, xvars >>

\* The task takes the head of its queue and finishes.
TaskTakes(t) == [t EXCEPT !.st = "done", !.res = Head(cbuf[t.sub])]

\* The loop runs a step of the task (subscription.get() of an asyncio.Queue).
\* A cancellation is delivered as CancelledError at the task's suspension
\* point and leaves the queue as it is.
TaskStep ==
    /\ \/ getTask.st = "new"
       \/ getTask.st = "woken"
       \/ getTask.st = "waiting" /\ getTask.mustCancel
    /\ IF getTask.mustCancel
       THEN /\ getTask' = [getTask EXCEPT !.st = "cancelled",
                                          !.mustCancel = FALSE]
            /\ UNCHANGED cbuf
       ELSE IF cbuf[getTask.sub] # << >>
       THEN /\ getTask' = TaskTakes(getTask)
            /\ cbuf' = [cbuf EXCEPT ![getTask.sub] = Tail(@)]
       ELSE /\ getTask' = [getTask EXCEPT !.st = "waiting"]
            /\ UNCHANGED cbuf
    /\ UNCHANGED << cSubscription, directPut, cShouldClose, cReady, cPc,
                    ndirect, nitem, cRet, cSwapped, owed, nfail >>
    /\ UNCHANGED << pvars, tvars >>
    /\ UNCHANGED << yvars, xvars >>

\* How a task ends when subscription.get() raises: with SubscriptionClosed
\* or with another error.
FailedStates == { "subclosed", "error" }

\* The get() of an external subscription raises e; asyncio.Queue.get()
\* raises nothing, so only a subscription the caller installed can fail.
TaskFail(e) ==
    /\ nfail < MaxFails
    /\ TaskLive(getTask)
    /\ ~getTask.mustCancel
    /\ getTask.sub \in ExtSubs
    /\ getTask' = [getTask EXCEPT !.st = e]
    /\ nfail' = nfail + 1
    /\ UNCHANGED << cSubscription, directPut, cShouldClose, cReady, cPc, cbuf,
                    ndirect, nitem, cRet, cSwapped, owed >>
    /\ UNCHANGED << pvars, tvars >>
    /\ UNCHANGED << yvars, xvars >>

\* An error that left _get().
Propagated(t) ==
    [kind |-> "error", val |-> NoItem, src |-> t.sub, active |-> cSubscription,
     afterClose |-> FALSE, swapped |-> cSwapped, owed |-> owed]

SwallowedOnlyClosed(e) == e = "subclosed"

\* _get(): `except SubscriptionClosed:` and the bare `except:` catch what
\* the awaited task raised.
Swallowed(e) == TRUE

\* _get() is resumed after its task finished: return self._getTask.result(),
\* or, on CancelledError, SubscriptionClosed or any other error, go round
\* the loop.
GetResume ==
    /\ cPc = "await"
    /\ getTask.st \in {"done", "cancelled"} \cup FailedStates
    /\ IF getTask.st = "done"
       THEN /\ cRet' = Returned(getTask)
            /\ cPc' = "idle"
            /\ owed' = NoItem
            /\ UNCHANGED getTask
       ELSE IF getTask.st \in FailedStates /\ ~Swallowed(getTask.st)
       THEN /\ cRet' = Propagated(getTask)
            /\ cPc' = "idle"
            /\ owed' = NoItem
            /\ UNCHANGED getTask
       ELSE IF LoopExits
       THEN /\ cRet' = Raised(FALSE)
            /\ cPc' = "idle"
            /\ owed' = NoItem
            /\ UNCHANGED getTask
       ELSE /\ getTask' = NewTask(cSubscription)
            /\ UNCHANGED << cRet, cPc, owed >>
    /\ UNCHANGED << cSubscription, directPut, cShouldClose, cReady, cbuf,
                    ndirect, nitem, cSwapped, nfail >>
    /\ UNCHANGED << pvars, tvars >>
    /\ UNCHANGED << yvars, xvars >>

(***************************************************************************)
(* ThreadedSubscriptionProducer.  __init__ (ready=False) starts the worker *)
(* thread, which runs _producer().  close() runs on the loop's thread and  *)
(* blocks it in join(): the loop runs no callback while close() is active, *)
(* the worker runs on.  The two threads are cut at each access to shared   *)
(* state.                                                                  *)
(***************************************************************************)
\* The state after __init__: the worker has not run yet.
WorkerInit ==
    /\ wpc = "start"
    /\ wItem = NoItem
    /\ testQ = << >>
    /\ handles = << >>
    /\ closePc = "open"
    /\ ntest = 0
    /\ handed = << >>
    /\ early = FALSE

\* The loop's thread is not inside close().
LoopFree == closePc \in {"open", "closed"}

\* subscribe(Queue1) on the loop's thread.
TSubscribe ==
    /\ LoopFree
    /\ Register(Queue1)
    /\ reg' = reg \cup {Queue1}
    /\ early' = (early \/ (ntest = 0 /\ nproc = 0 /\ closePc = "open"))
    /\ UNCHANGED << defaultSubscription, pShouldClose, pReady, qbuf, calls,
                    futures, corun, nfresh, userFresh, nput, getPc, getQ,
                    unsubResult, resub, expected, taken, bornAt, getLog,
                    getMark, unsubSince, resetSince, unsubFloor >>
    /\ UNCHANGED << wpc, wItem, testQ, handles, closePc, ntest, handed >>
    /\ UNCHANGED cvars
    /\ UNCHANGED << yvars, xvars >>

\* The test puts the next item into testQueue.
TestPut ==
    /\ ntest < MaxTestPuts
    /\ testQ' = Append(testQ, ntest + 1)
    /\ ntest' = ntest + 1
    /\ UNCHANGED << wpc, wItem, handles, closePc, handed, early >>
    /\ UNCHANGED << pvars, cvars >>
    /\ UNCHANGED << yvars, xvars >>

\* _producer(): the queues are built, then self._ready = True
WStart ==
    /\ wpc = "start"
    /\ pReady' = TRUE
    /\ wpc' = "loop"
    /\ UNCHANGED << subscriptions, callbacks, cocallbacks, defaultSubscription,
                    pShouldClose, qbuf, calls, futures, corun, nfresh,
                    userFresh, nput, getPc, getQ, unsubResult, reg, resub,
                    expected, taken, bornAt, getLog, getMark, unsubSince,
                    resetSince, unsubFloor >>
    /\ UNCHANGED << wItem, testQ, handles, closePc, ntest, handed, early >>
    /\ UNCHANGED cvars
    /\ UNCHANGED << yvars, xvars >>

\* _producer(): while not self._shouldClose
WLoop ==
    /\ wpc = "loop"
    /\ wpc' = IF pShouldClose THEN "end" ELSE "get"
    /\ UNCHANGED << wItem, testQ, handles, closePc, ntest, handed, early >>
    /\ UNCHANGED << pvars, cvars >>
    /\ UNCHANGED << yvars, xvars >>

\* _producer(): self.testQueue.get(1) blocks until the queue holds an item.
WGet ==
    /\ wpc = "get"
    /\ testQ # << >>
    /\ wItem' = Head(testQ)
    /\ testQ' = Tail(testQ)
    /\ wpc' = "put"
    /\ UNCHANGED << handles, closePc, ntest, handed, early >>
    /\ UNCHANGED << pvars, cvars >>
    /\ UNCHANGED << yvars, xvars >>

\* The broadcast run by the calling thread itself.
HandOverDirect(x) ==
    /\ Broadcast(x)
    /\ nput' = nput + 1
    /\ UNCHANGED handles
    /\ UNCHANGED << subscriptions, callbacks, cocallbacks, defaultSubscription,
                    pShouldClose, pReady, corun, nfresh, userFresh, getPc,
                    getQ, unsubResult, reg, resub, taken, bornAt, getLog,
                    getMark, unsubSince, resetSince, unsubFloor >>

\* ThreadedSubscriptionProducer._put_nowait(data):
\* self._loop.call_soon_threadsafe(super()._put_nowait, data)
HandOver(x) ==
    /\ handles' = Append(handles, x)
    /\ UNCHANGED pvars

\* _producer(): self._put_nowait(item)
WPut ==
    /\ wpc = "put"
    /\ HandOver(wItem)
    /\ handed' = IF closePc = "open" THEN Append(handed, wItem) ELSE handed
    /\ wItem' = NoItem
    /\ wpc' = "loop"
    /\ UNCHANGED << testQ, closePc, ntest, early >>
    /\ UNCHANGED cvars
    /\ UNCHANGED << yvars, xvars >>

\* _producer(): self.testResultQueue.put("<<END>>"), and the thread ends.
WEnd ==
    /\ wpc = "end"
    /\ wpc' = "done"
    /\ UNCHANGED << wItem, testQ, handles, closePc, ntest, handed, early >>
    /\ UNCHANGED << pvars, cvars >>
    /\ UNCHANGED << yvars, xvars >>

\* The loop runs the oldest marshalled callback: super()._put_nowait(data).
TRunHandle ==
    /\ LoopFree
    /\ handles # << >>
    /\ Broadcast(Head(handles))
    /\ nput' = nput + 1
    /\ handles' = Tail(handles)
    /\ UNCHANGED << subscriptions, callbacks, cocallbacks, defaultSubscription,
                    pShouldClose, pReady, corun, nfresh, userFresh, getPc,
                    getQ, unsubResult, reg, resub, taken, bornAt, getLog,
                    getMark, unsubSince, resetSince, unsubFloor >>
    /\ UNCHANGED << wpc, wItem, testQ, closePc, ntest, handed, early >>
    /\ UNCHANGED cvars
    /\ UNCHANGED << yvars, xvars >>

\* close() is called; super().close(): self._shouldClose = True
TCloseFlag ==
    /\ closePc = "open"
    /\ pShouldClose' = TRUE
    /\ closePc' = "unsubscribe"
    /\ UNCHANGED << subscriptions, callbacks, cocallbacks, defaultSubscription,
                    pReady, qbuf, calls, futures, corun, nfresh, userFresh,
                    nput, getPc, getQ, unsubResult, reg, resub, expected,
                    taken, bornAt, getLog, getMark, unsubSince, resetSince,
                    unsubFloor >>
    /\ UNCHANGED << wpc, wItem, testQ, handles, ntest, handed, early >>
    /\ UNCHANGED cvars
    /\ UNCHANGED << yvars, xvars >>

\* super().close(): self.unsubscribeAll()
TCloseUnsubscribe ==
    /\ closePc = "unsubscribe"
    /\ Cleared
    /\ reg' = {}
    /\ closePc' = "ready"
    /\ UNCHANGED << pShouldClose, pReady, qbuf, calls, futures, corun, nfresh,
                    userFresh, nput, getPc, getQ, unsubResult, resub, expected,
                    taken, bornAt, getLog, getMark, unsubSince, resetSince,
                    unsubFloor >>
    /\ UNCHANGED << wpc, wItem, testQ, handles, ntest, handed, early >>
    /\ UNCHANGED cvars
    /\ UNCHANGED << yvars, xvars >>

\* super().close(): self._ready = False
TCloseReady ==
    /\ closePc = "ready"
    /\ pReady' = FALSE
    /\ closePc' = "join"
    /\ UNCHANGED << subscriptions, callbacks, cocallbacks, defaultSubscription,
                    pShouldClose, qbuf, calls, futures, corun, nfresh,
                    userFresh, nput, getPc, getQ, unsubResult, reg, resub,
                    expected, taken, bornAt, getLog, getMark, unsubSince,
                    resetSince, unsubFloor >>
    /\ UNCHANGED << wpc, wItem, testQ, handles, ntest, handed, early >>
    /\ UNCHANGED cvars
    /\ UNCHANGED << yvars, xvars >>

\* close(): self._producerThread.join() returns once the worker has ended.
TCloseJoin ==
    /\ closePc = "join"
    /\ wpc = "done"
    /\ closePc' = "closed"
    /\ UNCHANGED << wpc, wItem, testQ, handles, ntest, handed, early >>
    /\ UNCHANGED << pvars, cvars >>
    /\ UNCHANGED << yvars, xvars >>

(***************************************************************************)
(* ThreadedSubscriptionConsumer.  __init__ (ready=False) starts the worker *)
(* thread, which runs _consumer() and calls _get().  A wait handle is the  *)
(* concurrent future run_coroutine_threadsafe returns, chained to the      *)
(* asyncio task that runs subscription.get() on the loop.                  *)
(***************************************************************************)
\* What the except clauses of _get() catch depends on the interpreter:
\* result() raises concurrent.futures.CancelledError / TimeoutError, the
\* clauses name asyncio.CancelledError / asyncio.TimeoutError.  The classes
\* are the same objects in Python 3.7; from 3.8 on both pairs differ; from
\* 3.11 on the two TimeoutError are one class again.
Interpreters == { "py37", "py38", "py311" }

\* except asyncio.CancelledError catches the cancellation of the handle
CatchesCancelled == interp = "py37"

\* except asyncio.TimeoutError catches the timeout of result(1)
CatchesTimeout == interp \in { "py37", "py311" }

\* A handle: the task (st, res, mustCancel, as for the base consumer) and
\* the concurrent future fut the worker blocks on: "pending", "done" (it
\* holds the task's result) or "cancelled".  creq: the future was cancelled
\* and the loop has not yet run the task.cancel() this schedules.
NewHandle(s) ==
    [st |-> "new", sub |-> s, res |-> NoItem, mustCancel |-> FALSE,
     fut |-> "pending", creq |-> FALSE]

\* __init__: no handle yet, the worker has not run.
YInit(I) ==
    /\ interp \in I
    /\ ypc = "start"
    /\ ylock = "free"
    /\ yh = << >>
    /\ ycur = 0
    /\ yout = << >>
    /\ yclose = "open"

\* self._getTask is not None and not self._getTask.done()
HandlePending == ycur # 0 /\ yh[ycur].fut = "pending"

\* self._getTask.cancel(): the future is cancelled at once and the
\* cancellation of its task is scheduled on the loop; a finished task
\* whose result was not yet copied loses it.
CancelHandle(h) == [h EXCEPT !.fut = "cancelled", !.creq = TRUE]

\* The handles after `if ... not self._getTask.done(): self._getTask.cancel()`
CancelCurrent ==
    IF HandlePending THEN [yh EXCEPT ![ycur] = CancelHandle(@)] ELSE yh

\* The getters of queue q in the order they were submitted.
Getters(q) ==
    { i \in 1..Len(yh) :
        yh[i].st = "waiting" /\ yh[i].sub = q /\ ~yh[i].mustCancel }

Min(S) == CHOOSE i \in S : \A j \in S : i <= j

\* Queue.put_nowait wakes the oldest getter of q.
WakeOldest(q) ==
    IF Getters(q) = {} THEN yh
    ELSE [yh EXCEPT ![Min(Getters(q))].st = "woken"]

LockIgnored == TRUE

\* with self._taskLock: the lock can be taken
LockAvailable == ylock = "free"

\* The loop's thread is not blocked in close().
YLoopFree == yclose # "join"

\* _consumer(): the queue is built, then self._ready = True
YStart ==
    /\ ypc = "start"
    /\ cReady' = TRUE
    /\ ypc' = "check"
    /\ UNCHANGED << cSubscription, directPut, cShouldClose, getTask, cPc,
                    cbuf, ndirect, nitem, cRet, cSwapped, owed, nfail >>
    /\ UNCHANGED << interp, ylock, yh, ycur, yout, yclose >>
    /\ UNCHANGED << pvars, tvars, xvars >>

\* _get(): while not self._shouldClose
YCheck ==
    /\ ypc = "check"
    /\ ypc' = IF cShouldClose THEN "raise" ELSE "lock"
    /\ UNCHANGED << interp, ylock, yh, ycur, yout, yclose >>
    /\ UNCHANGED << pvars, cvars, tvars, xvars >>

\* _get(): the lock is taken and
\* asyncio.run_coroutine_threadsafe(self._subscription.get(), self._loop)
YSubmit ==
    /\ ypc = "lock"
    /\ LockAvailable
    /\ Len(yh) < MaxSubmits
    /\ ylock' = "worker"
    /\ yh' = Append(yh, NewHandle(cSubscription))
    /\ ypc' = "capture"
    /\ UNCHANGED << interp, ycur, yout, yclose >>
    /\ UNCHANGED << pvars, cvars, tvars, xvars >>

\* _get(): self._getTask = <the handle>, and the lock is released
YCapture ==
    /\ ypc = "capture"
    /\ ycur' = Len(yh)
    /\ ylock' = "free"
    /\ ypc' = "result"
    /\ UNCHANGED << interp, yh, yout, yclose >>
    /\ UNCHANGED << pvars, cvars, tvars, xvars >>

\* _get(): self._getTask.result(1) returns; _consumer() puts the item into
\* testQueue and calls _get() again.
YResult ==
    /\ ypc = "result"
    /\ yh[ycur].fut = "done"
    /\ yout' = Append(yout, yh[ycur].res)
    /\ ypc' = "check"
    /\ UNCHANGED << interp, ylock, yh, ycur, yclose >>
    /\ UNCHANGED << pvars, cvars, tvars, xvars >>

\* _get(): result(1) raises CancelledError; if no clause catches it the
\* exception leaves _get() and _consumer() and the thread ends.
YCancelled ==
    /\ ypc = "result"
    /\ yh[ycur].fut = "cancelled"
    /\ ypc' = IF CatchesCancelled THEN "check" ELSE "dead"
    /\ UNCHANGED << interp, ylock, yh, ycur, yout, yclose >>
    /\ UNCHANGED << pvars, cvars, tvars, xvars >>

\* _get(): result(1) raises TimeoutError after one second without result;
\* the handle is left as it is.
YTimeout ==
    /\ ypc = "result"
    /\ yh[ycur].fut = "pending"
    /\ ypc' = IF CatchesTimeout THEN "check" ELSE "dead"
    /\ UNCHANGED << interp, ylock, yh, ycur, yout, yclose >>
    /\ UNCHANGED << pvars, cvars, tvars, xvars >>

\* _get() raises SubscriptionClosed; _consumer() puts "<<END>>" and returns.
YRaise ==
    /\ ypc = "raise"
    /\ ypc' = "done"
    /\ UNCHANGED << interp, ylock, yh, ycur, yout, yclose >>
    /\ UNCHANGED << pvars, cvars, tvars, xvars >>

\* The loop runs a step of the task of handle i, as TaskStep does for the
\* base consumer.
YTaskStep(i) ==
    /\ YLoopFree
    /\ \/ yh[i].st = "new"
       \/ yh[i].st = "woken"
       \/ yh[i].st = "waiting" /\ yh[i].mustCancel
    /\ IF yh[i].mustCancel
       THEN /\ yh' = [yh EXCEPT ![i].st = "cancelled",
                                ![i].mustCancel = FALSE]
            /\ UNCHANGED cbuf
       ELSE IF cbuf[yh[i].sub] # << >>
       THEN /\ yh' = [yh EXCEPT ![i] = TaskTakes(@)]
            /\ cbuf' = [cbuf EXCEPT ![yh[i].sub] = Tail(@)]
       ELSE /\ yh' = [yh EXCEPT ![i].st = "waiting"]
            /\ UNCHANGED cbuf
    /\ UNCHANGED << cSubscription, directPut, cShouldClose, cReady, getTask,
                    cPc, ndirect, nitem, cRet, cSwapped, owed, nfail >>
    /\ UNCHANGED << interp, ypc, ylock, ycur, yout, yclose >>
    /\ UNCHANGED << pvars, tvars, xvars >>

\* The loop runs the task.cancel() a cancelled future scheduled.
YDeliverCancel(i) ==
    /\ YLoopFree
    /\ yh[i].creq
    /\ yh' = [yh EXCEPT ![i].creq = FALSE,
                        ![i].mustCancel = TaskLive(yh[i])]
    /\ UNCHANGED << interp, ypc, ylock, ycur, yout, yclose >>
    /\ UNCHANGED << pvars, cvars, tvars, xvars >>

\* The loop runs the done-callback of a finished task: its result is
\* copied into the future unless that was cancelled.
YCopyResult(i) ==
    /\ YLoopFree
    /\ yh[i].st = "done"
    /\ yh[i].fut = "pending"
    /\ yh' = [yh EXCEPT ![i].fut = "done"]
    /\ UNCHANGED << interp, ypc, ylock, ycur, yout, yclose >>
    /\ UNCHANGED << pvars, cvars, tvars, xvars >>

\* ThreadedSubscriptionConsumer.putSubscription(s): with self._taskLock
YPutSubscription(s) ==
    /\ YLoopFree
    /\ LockAvailable
    /\ cSubscription' = s
    /\ yh' = IF s = cSubscription THEN yh ELSE CancelCurrent
    /\ UNCHANGED << directPut, cShouldClose, cReady, getTask, cPc, cbuf,
                    ndirect, nitem, cRet, cSwapped, owed, nfail >>
    /\ UNCHANGED << interp, ypc, ylock, ycur, yout, yclose >>
    /\ UNCHANGED << pvars, tvars, xvars >>

\* put_nowait(x), x the next item; stop() goes through the overridden
\* putSubscription and so takes the lock.
YPutNowait ==
    /\ YLoopFree
    /\ nitem < MaxItems
    /\ nitem' = nitem + 1
    /\ IF NeedsStop
       THEN /\ LockAvailable
            /\ ndirect < MaxStops
            /\ directPut' = Direct(ndirect + 1)
            /\ ndirect' = ndirect + 1
            /\ cSubscription' = Direct(ndirect + 1)
            /\ cbuf' = [cbuf EXCEPT ![Direct(ndirect + 1)] =
                                        Append(@, nitem + 1)]
            /\ yh' = CancelCurrent
       ELSE /\ cbuf' = [cbuf EXCEPT ![directPut] = Append(@, nitem + 1)]
            /\ yh' = WakeOldest(directPut)
            /\ UNCHANGED << directPut, ndirect, cSubscription >>
    /\ UNCHANGED << cShouldClose, cReady, getTask, cPc, cRet, cSwapped, owed,
                    nfail >>
    /\ UNCHANGED << interp, ypc, ylock, ycur, yout, yclose >>
    /\ UNCHANGED << pvars, tvars, xvars >>

\* ThreadedSubscriptionConsumer.close(): with self._taskLock super().close();
\* the caller then waits in self._consumerThread.join().
YClose ==
    /\ YLoopFree
    /\ LockAvailable
    /\ cReady' = FALSE
    /\ cShouldClose' = TRUE
    /\ yh' = CancelCurrent
    /\ yclose' = "join"
    /\ UNCHANGED << cSubscription, directPut, getTask, cPc, cbuf, ndirect,
                    nitem, cRet, cSwapped, owed, nfail >>
    /\ UNCHANGED << interp, ypc, ylock, ycur, yout >>
    /\ UNCHANGED << pvars, tvars, xvars >>

\* close(): self._consumerThread.join() returns once the thread has ended.
YCloseJoin ==
    /\ yclose = "join"
    /\ ypc \in {"done", "dead"}
    /\ yclose' = "closed"
    /\ UNCHANGED << interp, ypc, ylock, yh, ycur, yout >>
    /\ UNCHANGED << pvars, cvars, tvars, xvars >>

(***************************************************************************)
(* ProcessSubscriptionProducer.  __init__ starts the bridging thread       *)
(* (__queueReader) and the worker process (__producerSetup).               *)
(***************************************************************************)
\* __init__: both events clear, the queue empty, nothing has run yet.
XInit ==
    /\ procPc = "start"
    /\ procEnd = "none"
    /\ prodQ = << >>
    /\ rpc = "check"
    /\ nproc = 0

AfterRaisePropagates == "exited"

\* __producerSetup(): `except:` catches whatever the routine raises and the
\* lines after the try statement run.
AfterRaise == "cleanup"

StillAliveNever == FALSE

\* close(): self._producerProcess.is_alive()
StillAlive == procPc # "exited"

\* The worker process: __producerSetup() calls self._producer(), whose
\* first act is self._ready = True (the readiness event is set).
XStart ==
    /\ procPc = "start"
    /\ pReady' = TRUE
    /\ procPc' = "run"
    /\ UNCHANGED << subscriptions, callbacks, cocallbacks, defaultSubscription,
                    pShouldClose, qbuf, calls, futures, corun, nfresh,
                    userFresh, nput, getPc, getQ, unsubResult, reg, resub,
                    expected, taken, bornAt, getLog, getMark, unsubSince,
                    resetSince, unsubFloor >>
    /\ UNCHANGED << procEnd, prodQ, rpc, nproc >>
    /\ UNCHANGED << cvars, tvars, yvars >>

\* The routine calls self._put_nowait(data): the item goes onto the
\* cross-process queue.
XProduce ==
    /\ procPc = "run"
    /\ nproc < MaxProcPuts
    /\ prodQ' = Append(prodQ, nproc + 1)
    /\ nproc' = nproc + 1
    /\ UNCHANGED << procPc, procEnd, rpc >>
    /\ UNCHANGED << pvars, cvars, tvars, yvars >>

\* The routine returns.
XReturn ==
    /\ procPc = "run"
    /\ procPc' = "cleanup"
    /\ procEnd' = "returned"
    /\ UNCHANGED << prodQ, rpc, nproc >>
    /\ UNCHANGED << pvars, cvars, tvars, yvars >>

\* The routine raises.
XRaise ==
    /\ procPc = "run"
    /\ procPc' = AfterRaise
    /\ procEnd' = "raised"
    /\ UNCHANGED << prodQ, rpc, nproc >>
    /\ UNCHANGED << pvars, cvars, tvars, yvars >>

\* __producerSetup(): self._ready = False (the readiness event is cleared)
XClearReady ==
    /\ procPc = "cleanup"
    /\ pReady' = FALSE
    /\ procPc' = "signal"
    /\ UNCHANGED << subscriptions, callbacks, cocallbacks, defaultSubscription,
                    pShouldClose, qbuf, calls, futures, corun, nfresh,
                    userFresh, nput, getPc, getQ, unsubResult, reg, resub,
                    expected, taken, bornAt, getLog, getMark, unsubSince,
                    resetSince, unsubFloor >>
    /\ UNCHANGED << procEnd, prodQ, rpc, nproc >>
    /\ UNCHANGED << cvars, tvars, yvars >>

\* __producerSetup(): self._shouldClose = True (the shutdown event is set)
XSignalClose ==
    /\ procPc = "signal"
    /\ pShouldClose' = TRUE
    /\ procPc' = "exiting"
    /\ UNCHANGED << subscriptions, callbacks, cocallbacks, defaultSubscription,
                    pReady, qbuf, calls, futures, corun, nfresh, userFresh,
                    nput, getPc, getQ, unsubResult, reg, resub, expected,
                    taken, bornAt, getLog, getMark, unsubSince, resetSince,
                    unsubFloor >>
    /\ UNCHANGED << procEnd, prodQ, rpc, nproc >>
    /\ UNCHANGED << cvars, tvars, yvars >>

\* __producerSetup() restores the signal handler and returns: the worker
\* process exits.
XExit ==
    /\ procPc = "exiting"
    /\ procPc' = "exited"
    /\ UNCHANGED << procEnd, prodQ, rpc, nproc >>
    /\ UNCHANGED << pvars, cvars, tvars, yvars >>

\* __queueReader(): while not self._shouldClose
RCheck ==
    /\ rpc = "check"
    /\ rpc' = IF pShouldClose THEN "done" ELSE "get"
    /\ UNCHANGED << procPc, procEnd, prodQ, nproc >>
    /\ UNCHANGED << pvars, cvars, tvars, yvars >>

QueueGetNewest == prodQ[Len(prodQ)]

\* multiprocessing.Queue.get() returns the item that was put first.
QueueGet == Head(prodQ)

\* __queueReader(): self._producerQueue.get(timeout=self._joinTimeout)
\* returns the oldest item, which is marshalled onto the loop as the
\* thread-bridged producer does (call_soon_threadsafe(super()._put_nowait,
\* data)), or raises queue.Empty after the timeout.
RGet ==
    /\ rpc = "get"
    /\ IF prodQ # << >>
       THEN /\ HandOver(QueueGet)
            /\ prodQ' = Tail(prodQ)
       ELSE /\ UNCHANGED << prodQ, handles >>
            /\ UNCHANGED pvars
    /\ rpc' = "check"
    /\ UNCHANGED << procPc, procEnd, nproc >>
    /\ UNCHANGED << wpc, wItem, testQ, closePc, ntest, handed, early >>
    /\ UNCHANGED << cvars, yvars >>

\* close(): self._producerProcess.join(self._joinTimeout) returns when the
\* process has exited or the timeout has passed.
XCloseJoinProcess ==
    /\ closePc = "join"
    /\ closePc' = "joinreader"
    /\ UNCHANGED << wpc, wItem, testQ, handles, ntest, handed, early >>
    /\ UNCHANGED << pvars, cvars, yvars, xvars >>

\* close(): self.__queueReaderThread.join() returns once the bridging
\* thread has ended.
XCloseJoinReader ==
    /\ closePc = "joinreader"
    /\ rpc = "done"
    /\ closePc' = "alive"
    /\ UNCHANGED << wpc, wItem, testQ, handles, ntest, handed, early >>
    /\ UNCHANGED << pvars, cvars, yvars, xvars >>

\* close(): if self._producerProcess.is_alive(): terminate(); join()
XCloseTerminate ==
    /\ closePc = "alive"
    /\ IF StillAlive
       THEN procPc' = "exited" /\ procEnd' = "killed"
       ELSE UNCHANGED << procPc, procEnd >>
    /\ closePc' = "closed"
    /\ UNCHANGED << prodQ, rpc, nproc >>
    /\ UNCHANGED << wpc, wItem, testQ, handles, ntest, handed, early >>
    /\ UNCHANGED << pvars, cvars, yvars >>

\* The thread-bridged consumer and the process-bridged producer are not
\* constructed.
BridgesIdle == YInit({"py311"}) /\ XInit

(***************************************************************************)
(* The base producer (SubscriptionProducer), constructed with ready=True:  *)
(* subscribers the caller passes in, and broadcasts.                       *)
(***************************************************************************)
InitProducer ==
    ProducerInit(TRUE) /\ ConsumerInit(TRUE) /\ WorkerInit /\ BridgesIdle

NextProducer ==
    \/ \E o \in UserObjs : PSubscribe(o)
    \/ \E o \in UserObjs : PUnsubscribe(o)
    \/ PUnsubscribeAll
    \/ PClose
    \/ PPut(MaxPuts)
    \/ PRunFuture

SpecProducer == InitProducer /\ [][NextProducer]_vars

(***************************************************************************)
(* The base producer read through get() and through subscribe() with no    *)
(* argument: only queues of the default class are registered.              *)
(***************************************************************************)
NextProducerGet ==
    \/ PSubscribeNew
    \/ \E o \in FreshObjs : PUnsubscribe(o)
    \/ PUnsubscribeDefault
    \/ PUnsubscribeAll
    \/ PClose
    \/ PPut(MaxGetPuts)
    \/ PGetCall
    \/ PGetWake

SpecProducerGet == InitProducer /\ [][NextProducerGet]_vars

(***************************************************************************)
(* The base producer whose subscribers only leave through close().         *)
(***************************************************************************)
NextProducerClose ==
    \/ \E o \in UserObjs : PSubscribe(o)
    \/ PClose
    \/ PPut(MaxPuts)
    \/ PRunFuture

SpecProducerClose == InitProducer /\ [][NextProducerClose]_vars

(***************************************************************************)
(* The base consumer (SubscriptionConsumer), constructed with ready=True.  *)
(***************************************************************************)
InitConsumer ==
    ProducerInit(TRUE) /\ ConsumerInit(TRUE) /\ WorkerInit /\ BridgesIdle

\* The steps of a consumer whose caller holds the subscriptions of set E.
NextConsumer(E) ==
    \/ \E q \in E : ExtPut(q)
    \/ CPutNowait
    \/ \E s \in E : CPutSubscription(s)
    \/ CStop
    \/ CClose
    \/ GetCall
    \/ TaskStep
    \/ GetResume

SpecConsumer == InitConsumer /\ [][NextConsumer(ExtSubs)]_vars

\* The event loop runs every callback it has been handed: a runnable task
\* step and the resumption of _get() are not postponed for ever.
SpecConsumerFair ==
    /\ InitConsumer
    /\ [][NextConsumer({Ext1})]_vars
    /\ WF_vars(TaskStep)
    /\ WF_vars(GetResume)

\* The base consumer reading an external subscription whose get() may
\* raise, under the same scheduling.
NextConsumerErr ==
    \/ NextConsumer({Ext1})
    \/ \E e \in FailedStates : TaskFail(e)

SpecConsumerErr ==
    /\ InitConsumer
    /\ [][NextConsumerErr]_vars
    /\ WF_vars(TaskStep)
    /\ WF_vars(GetResume)

(***************************************************************************)
(* The thread-bridged producer with the _producer() of the base class.     *)
(***************************************************************************)
InitThreaded ==
    ProducerInit(FALSE) /\ ConsumerInit(TRUE) /\ WorkerInit /\ BridgesIdle

NextThreaded ==
    \/ TSubscribe
    \/ TestPut
    \/ WStart
    \/ WLoop
    \/ WGet
    \/ WPut
    \/ WEnd
    \/ TRunHandle
    \/ TCloseFlag
    \/ TCloseUnsubscribe
    \/ TCloseReady
    \/ TCloseJoin

SpecThreaded == InitThreaded /\ [][NextThreaded]_vars

(***************************************************************************)
(* The thread-bridged consumer (ThreadedSubscriptionConsumer): its worker  *)
(* thread, the loop that runs the submitted waits, and a caller on the     *)
(* loop's thread that feeds items directly, installs an external           *)
(* subscription (whose producer stays silent) and closes.                  *)
(***************************************************************************)
InitThreadedConsumer ==
    /\ ProducerInit(TRUE) /\ ConsumerInit(FALSE) /\ WorkerInit
    /\ YInit(Interpreters) /\ XInit

NextThreadedConsumer ==
    \/ YStart
    \/ YCheck
    \/ YSubmit
    \/ YCapture
    \/ YResult
    \/ YCancelled
    \/ YTimeout
    \/ YRaise
    \/ \E i \in 1..Len(yh) : YTaskStep(i)
    \/ \E i \in 1..Len(yh) : YDeliverCancel(i)
    \/ \E i \in 1..Len(yh) : YCopyResult(i)
    \/ YPutSubscription(Ext1)
    \/ YPutNowait
    \/ YClose
    \/ YCloseJoin

SpecThreadedConsumer == InitThreadedConsumer /\ [][NextThreadedConsumer]_vars

(***************************************************************************)
(* The process-bridged producer (ProcessSubscriptionProducer): the worker  *)
(* process with a routine that may produce, return, raise or run on, the   *)
(* bridging thread, the loop, and a caller on the loop's thread that       *)
(* subscribes Queue1 and closes.                                           *)
(***************************************************************************)
InitProcess ==
    /\ ProducerInit(FALSE) /\ ConsumerInit(TRUE) /\ WorkerInit
    /\ YInit({"py311"}) /\ XInit

NextProcess ==
    \/ TSubscribe
    \/ XStart
    \/ XProduce
    \/ XReturn
    \/ XRaise
    \/ XClearReady
    \/ XSignalClose
    \/ XExit
    \/ RCheck
    \/ RGet
    \/ TRunHandle
    \/ TCloseFlag
    \/ TCloseUnsubscribe
    \/ TCloseReady
    \/ XCloseJoinProcess
    \/ XCloseJoinReader
    \/ XCloseTerminate

SpecProcess == InitProcess /\ [][NextProcess]_vars

\* The bridging thread and the thread that called close() are scheduled;
\* nothing is assumed about the routine in the worker process.
SpecProcessFair ==
    /\ InitProcess
    /\ [][NextProcess]_vars
    /\ WF_vars(RCheck)
    /\ WF_vars(RGet)
    /\ WF_vars(TCloseUnsubscribe)
    /\ WF_vars(TCloseReady)
    /\ WF_vars(XCloseJoinProcess)
    /\ WF_vars(XCloseJoinReader)
    /\ WF_vars(XCloseTerminate)

(***************************************************************************)
(* Properties of the base producer.                                        *)
(***************************************************************************)
\* Everything that was ever put into queue o, in order.
Received(o) == taken[o] \o qbuf[o]

\* The invocations of coroutine callback o that are scheduled and not run.
Pending(o) ==
    LET F[i \in 0..Len(futures)] ==
            IF i = 0 THEN << >>
            ELSE IF futures[i].obj = o THEN Append(F[i - 1], futures[i].item)
            ELSE F[i - 1]
    IN F[Len(futures)]

IsQueueLike(o) == o.hasPut
IsAsyncCallback(o) == ~o.hasPut /\ o.isCoro
IsSyncCallback(o) == ~o.hasPut /\ ~o.isCoro

StrictlyIncreasing(seq) ==
    \A i, j \in 1..Len(seq) : i < j => seq[i] < seq[j]

\* C1: every queue-like subscription has received exactly the items that
\* were broadcast while it was registered, each once and in broadcast order,
\* whatever callbacks are registered beside it.
C1_QueueReceivesBroadcastsInOrder ==
    \A o \in AllObjs :
        IsQueueLike(o) =>
            /\ Received(o) = expected[o]
            /\ StrictlyIncreasing(Received(o))

\* C1 witness: a queue holds both broadcast items in order while both kinds
\* of callback are registered beside it.
C1_Witness ==
    /\ nput = 2
    /\ qbuf[Queue1] = << 1, 2 >>
    /\ SyncCallback \in callbacks
    /\ AsyncCallback \in cocallbacks

\* The registries object o is a member of.
MemberOf(o) ==
    { n \in {"subscriptions", "callbacks", "cocallbacks"} : o \in RegistryOf(n) }

\* What object o has observed: queue content, calls, coroutine invocations.
Observed(o) ==
    IF IsQueueLike(o) THEN Received(o)
    ELSE IF IsAsyncCallback(o) THEN corun[o] \o Pending(o)
    ELSE calls[o]

\* C6: unsubscribe(x) of an object that is not registered raises and leaves
\* the registries and the default subscription as they were; unsubscribe(x)
\* of a registered object does not raise.
C6_UnsubscribeUnregisteredRaises ==
    [][\A o \in UserObjs :
          (PUnsubscribe(o) /\ unsubResult'.obj = o) =>
              IF o \in reg
              THEN ~unsubResult'.raised
              ELSE unsubResult'.raised /\ Registries' = Registries]_vars

\* C6 witness: an unsubscribe has just raised for an object that had been
\* registered earlier (it received an item) while others are registered.
C6_Witness ==
    /\ unsubResult = UnsubResult(Queue1, TRUE)
    /\ Queue1 \notin reg
    /\ expected[Queue1] # << >>
    /\ reg # {}

\* C7: an object is in at most one registry; subscribing it again changes
\* nothing, it observes each broadcast item once, and one unsubscribe
\* removes it from every registry.
C7_SubscribeIdempotent ==
    /\ [](\A o \in AllObjs :
            /\ Cardinality(MemberOf(o)) <= 1
            /\ o \in reg <=> MemberOf(o) # {}
            /\ StrictlyIncreasing(Observed(o)))
    /\ [][\A o \in UserObjs :
            /\ (PSubscribe(o) /\ o \in reg) => Registries' = Registries
            /\ (PUnsubscribe(o) /\ unsubResult' = UnsubResult(o, FALSE))
                  => MemberOf(o)' = {}]_vars

\* C7 witness: the synchronous callback was subscribed twice and then called
\* once with the one item broadcast since.
C7_Witness ==
    /\ resub = SyncCallback
    /\ nput = 1
    /\ calls[SyncCallback] = << 1 >>

\* C9: when a broadcast returns every registered synchronous callback has
\* been called once with the item, and for every registered coroutine
\* callback one invocation with the item is scheduled and none has run; so
\* every callback observes exactly the items broadcast while it was
\* registered, each once.
C9_CallbacksOncePerItem ==
    /\ [](\A o \in AllObjs :
            /\ IsSyncCallback(o) => calls[o] = expected[o]
            /\ IsAsyncCallback(o) => corun[o] \o Pending(o) = expected[o])
    /\ [][\A max \in {MaxPuts} :
            PPut(max) =>
              /\ corun' = corun
              /\ \A o \in AllObjs :
                   /\ (IsSyncCallback(o) /\ o \in reg)
                         => calls'[o] = Append(calls[o], nput')
                   /\ (IsAsyncCallback(o) /\ o \in reg)
                         => Pending(o)' = Append(Pending(o), nput')]_vars

\* C9 witness: the synchronous callback has been called with both items, the
\* coroutine callback has run for the first and is scheduled for the second,
\* and a queue is registered beside them.
C9_Witness ==
    /\ calls[SyncCallback] = << 1, 2 >>
    /\ corun[AsyncCallback] = << 1 >>
    /\ Pending(AsyncCallback) = << 2 >>
    /\ Queue1 \in subscriptions

(***************************************************************************)
(* Properties of get() and the default subscription.                       *)
(***************************************************************************)
\* How many earlier results of get() came from the queue of result i.
EarlierFromSameQueue(i) ==
    Cardinality({ j \in 1..(i - 1) : getLog[j].q = getLog[i].q })

\* Each result is the next item of its queue, counted from the broadcasts
\* made after the queue was built: in order, none skipped.
GetReadsInOrder ==
    \A i \in 1..Len(getLog) :
        getLog[i].item = bornAt[getLog[i].q] + EarlierFromSameQueue(i) + 1

\* A get() called after unsubscribe() reads a queue built after that call,
\* which no earlier get() has read, and returns an item broadcast after it.
GetAfterUnsubscribeIsFresh ==
    \A i \in 1..Len(getLog) :
        /\ getLog[i].item > getLog[i].mark.floor
        /\ getLog[i].mark.afterUnsub =>
              /\ bornAt[getLog[i].q] >= getLog[i].mark.floor
              /\ \A j \in 1..(i - 1) : getLog[j].q # getLog[i].q

\* C5 as stated: two successive get() calls with no unsubscribe() between
\* them read the same default subscription.
C5_Original ==
    /\ \A i \in 2..Len(getLog) :
          ~getLog[i].mark.afterUnsub => getLog[i].q = getLog[i - 1].q
    /\ GetReadsInOrder
    /\ GetAfterUnsubscribeIsFresh

\* C5 amended: two successive get() calls with no unsubscribe(), no
\* unsubscribeAll() and no close() between them read the same default
\* subscription, in order with none skipped; a get() after unsubscribe()
\* reads a newly built subscription and returns only later items.
C5_GetReadsOneDefaultSubscription ==
    /\ \A i \in 2..Len(getLog) :
          ~getLog[i].mark.afterReset => getLog[i].q = getLog[i - 1].q
    /\ GetReadsInOrder
    /\ GetAfterUnsubscribeIsFresh

\* C5 witness: the first get() left an item buffered in its default
\* subscription; after unsubscribe() the second get() returned the later
\* item from another queue.
C5_Witness ==
    /\ Len(getLog) = 2
    /\ getLog[2].mark.afterUnsub
    /\ getLog[2].q # getLog[1].q
    /\ qbuf[getLog[1].q] # << >>
    /\ getLog[2].item = 3

\* The program state of the producer, without the observers.
ProducerState ==
    << subscriptions, callbacks, cocallbacks, defaultSubscription,
       pShouldClose, pReady, qbuf, calls, futures, corun >>

NoMembers ==
    /\ subscriptions = {}
    /\ callbacks = {}
    /\ cocallbacks = {}
    /\ defaultSubscription = NoObj

\* C13: close() leaves the shutdown flag true, ready false and the three
\* registries and the default subscription empty; once closed the producer
\* stays closed and not ready; an object that is in no registry observes
\* nothing of a broadcast, so what was registered before close() receives
\* nothing afterwards; close() on a closed producer with empty registries
\* changes nothing.
C13_CloseClearsAndIsIdempotent ==
    /\ [][PClose => (pShouldClose' /\ ~pReady' /\ NoMembers')]_vars
    /\ [][pShouldClose => (pShouldClose' /\ ~pReady')]_vars
    /\ [][\A o \in AllObjs :
            (MemberOf(o) = {}) => Observed(o)' = Observed(o)]_vars
    /\ [][(pShouldClose /\ NoMembers /\ PClose)
            => UNCHANGED ProducerState]_vars

\* C13 witness: queue and callbacks got item 1, close() was called, and the
\* broadcast of item 2 after the close reached none of them.
C13_Witness ==
    /\ pShouldClose /\ ~pReady /\ NoMembers
    /\ nput = 2
    /\ expected[Queue1] = << 1 >> /\ Received(Queue1) = << 1 >>
    /\ calls[SyncCallback] = << 1 >>
    /\ Observed(AsyncCallback) = << 1 >>

(***************************************************************************)
(* Properties of the base consumer.                                        *)
(***************************************************************************)
\* The program state of the consumer, without the observers.
ConsumerState ==
    << cSubscription, directPut, cShouldClose, cReady, getTask, cPc, cbuf >>

\* C2: a _get() during which putSubscription(new) installed a new active
\* subscription never returns a value taken from another subscription than
\* the one that is active when it returns.
C2_SwappedWaitReturnsNoStaleValue ==
    (cRet.kind = "value" /\ cRet.swapped) => cRet.src = cRet.active

\* C3: once close() was called the consumer stays closed and not ready; a
\* _get() started afterwards ends at once with SubscriptionClosed and takes
\* no item out of any queue, whatever was put, swapped or stopped since;
\* close() called again changes nothing; and a _get() that was suspended
\* when close() was called ends.
C3_ClosedIsTerminal ==
    /\ [][cShouldClose => (cShouldClose' /\ ~cReady')]_vars
    /\ [][(cShouldClose /\ cPc = "idle") => cPc' = "idle"]_vars
    /\ [][(cShouldClose /\ cPc = "idle" /\ cRet' # cRet)
            => /\ cRet'.kind = "closed"
               /\ cRet'.afterClose
               /\ cbuf' = cbuf
               /\ getTask' = getTask]_vars
    /\ [](cRet.afterClose => cRet.kind = "closed")
    /\ [][(cShouldClose /\ CClose) => UNCHANGED ConsumerState]_vars
    /\ ((cShouldClose /\ cPc = "await") ~> (cPc = "idle"))

\* C3 witness: a _get() started after close() raised SubscriptionClosed
\* although an item put after the close is buffered in the active
\* subscription, and the task of an earlier _get() was cancelled.
C3_Witness ==
    /\ cShouldClose
    /\ cRet.kind = "closed" /\ cRet.afterClose
    /\ cbuf[cSubscription] # << >>
    /\ getTask.st = "cancelled"
    /\ cPc = "idle"

C11_OnlyClosedReachesCaller ==
    /\ [](cRet.kind = "closed" => cShouldClose)
    /\ [][(cPc = "await" /\ ~cShouldClose /\ cPc' = "idle")
            => (getTask.st = "done" /\ cRet'.kind = "value")]_vars
    /\ [][(cPc = "await" /\ ~cShouldClose /\ getTask.st = "cancelled"
              /\ getTask' # getTask)
            => (cPc' = "await" /\ getTask' = NewTask(cSubscription)
                  /\ cRet' = cRet)]_vars

\* C11 witness: the running _get() had its task cancelled by a swap and is
\* suspended on a new task against the subscription that is active now.
C11_Witness ==
    /\ cPc = "await"
    /\ cSwapped
    /\ ~cShouldClose
    /\ getTask.st = "new" /\ ~getTask.mustCancel
    /\ getTask.sub = cSubscription
    /\ cSubscription = Ext2

(***************************************************************************)
(* Properties of the thread-bridged producer.                              *)
(***************************************************************************)
\* C4: once close() has returned and the loop has run every marshalled
\* broadcast, a queue subscribed before the first item holds exactly the
\* items the worker handed to _put_nowait before close() was called, in
\* production order.
C4_HandedItemsDelivered ==
    (closePc = "closed" /\ handles = << >> /\ early)
        => qbuf[Queue1] = handed

\* C10: when close() has returned, ready is false.
C10_ReadyFalseAfterClose == (closePc = "closed") => ~pReady

\* C17: while close() waits in join() the worker can reach its end without
\* further input: it is never suspended in testQueue.get() on an empty
\* testQueue, where only a new item could let it see the shutdown flag.
C17_WorkerEndsWithoutInput ==
    (closePc = "join" /\ testQ = << >>) => wpc # "get"

(***************************************************************************)
(* Properties of the thread-bridged consumer.                              *)
(***************************************************************************)
\* The waits the worker submitted that are neither completed nor cancelled.
PendingWaits == { i \in 1..Len(yh) : yh[i].fut = "pending" }

\* C12: while the direct feed built by __init__ stays installed and close()
\* is not called, the worker's successive _get() calls return the items
\* put into it in the order they were put, none skipped: the k-th value
\* returned is the k-th item, whatever timeouts happened in between.
C12_WorkerGetsEveryItemInOrder ==
    (cSubscription = Direct(0) /\ ~cShouldClose)
        => \A k \in 1..Len(yout) : yout[k] = k

\* C14: at most one wait started by the consumer is pending at any time.
C14_AtMostOnePendingWait == Cardinality(PendingWaits) <= 1

\* C16: the wait the worker is blocked on is cancelled, completed, or was
\* submitted against the subscription that is active now; the worker is
\* never blocked on a pending wait against a replaced subscription.
C16_BlockedWaitIsCurrent ==
    (ypc = "result" /\ yh[ycur].fut = "pending")
        => yh[ycur].sub = cSubscription

\* C16 witness: the subscription was replaced while the worker was blocked,
\* and the wait it is blocked on, submitted against the old one, is
\* cancelled.
C16_Witness ==
    /\ ypc = "result"
    /\ ylock = "free"
    /\ yh[ycur].fut = "cancelled"
    /\ yh[ycur].sub = Direct(0)
    /\ cSubscription = Ext1
    /\ ~cShouldClose

\* C18: once close() has returned, the worker's _get() has ended with
\* SubscriptionClosed and _consumer() has run to its end.  Stated for the
\* case where nothing else can have ended the thread: the subscription was
\* never replaced and the interpreter's timeout is caught by _get().
C18_CloseEndsGetWithSubscriptionClosed ==
    (yclose = "closed" /\ CatchesTimeout /\ cSubscription = Direct(0))
        => ypc = "done"

(***************************************************************************)
(* Properties of the bridged producers.                                    *)
(***************************************************************************)
\* What a broadcast writes.
Delivery == << qbuf, calls, futures, nput >>

C19_RoutineEndSignalsShutdown ==
    /\ [](( procPc = "exited" /\ procEnd \in {"returned", "raised"} )
            => ( ~pReady /\ pShouldClose ))
    /\ (( procPc = "exited" /\ procEnd \in {"returned", "raised"} )
            ~> ( rpc = "done" ))

\* C19 witness: the routine raised, the process has exited, the bridging
\* thread has ended, and close() was never called.
C19_Witness ==
    /\ procPc = "exited"
    /\ procEnd = "raised"
    /\ rpc = "done"
    /\ closePc = "open"
    /\ ~pReady
    /\ pShouldClose

\* C20: close() returns, and when it has returned the worker process is
\* not alive and the bridging thread has ended.
C20_CloseTerminatesAndReaps ==
    /\ []( closePc = "closed" => ( procPc = "exited" /\ rpc = "done" ) )
    /\ (( closePc # "open" ) ~> ( closePc = "closed" ))

\* C20 witness: close() has returned after force-terminating a worker whose
\* routine never ended.
C20_Witness ==
    /\ closePc = "closed"
    /\ procEnd = "killed"
    /\ procPc = "exited"
    /\ rpc = "done"

(***************************************************************************)
(* Further properties of the base consumer.                                *)
(***************************************************************************)
\* The first _get() of the consumer is suspended, its task is pending on
\* another subscription than Ext1, Ext1 was installed during this wait and
\* holds v as its first item, and close() was not called.
SwappedOntoExt1(v) ==
    /\ cPc = "await"
    /\ cRet.kind = "none"
    /\ cSwapped
    /\ TaskLive(getTask)
    /\ getTask.sub # Ext1
    /\ cSubscription = Ext1
    /\ ~cShouldClose
    /\ cbuf[Ext1] # << >>
    /\ Head(cbuf[Ext1]) = v

\* C21: a wait suspended on subscription A when putSubscription(B) is
\* called returns the first item of B once B holds one, whether or not an
\* item arrives on A, unless close() is called or B is replaced first.
C21_SwappedWaitReturnsFromNew ==
    \A v \in 1..MaxItems :
        SwappedOntoExt1(v)
            ~> \/ cRet.kind = "value" /\ cRet.src = Ext1 /\ cRet.val = v
               \/ cShouldClose
               \/ cSubscription # Ext1

\* C21 witness: the first wait, started on the direct feed, has returned
\* the only item ever put, which arrived on Ext1 installed during the wait;
\* nothing arrived on the direct feed.
C21_Witness ==
    /\ cRet.kind = "value"
    /\ cRet.src = Ext1
    /\ cRet.val = 1
    /\ cRet.swapped
    /\ nitem = 1
    /\ ndirect = 0
    /\ cbuf[Direct(0)] = << >>
    /\ ~cShouldClose

\* The queues the consumer has used so far: the direct-feed queues it built
\* and the external subscriptions.
UsedBefore == { Direct(k) : k \in 0..ndirect } \cup ExtSubs

\* C22: a call of stop() leaves as active subscription a direct-feed queue
\* that is empty and was not used before, the `subscription` property
\* reading None, a cancellation requested for a wait that was in flight,
\* and every queue's content, the flags and the caller's position as they
\* were.
C22_StopInstallsFreshQueue ==
    [][ (ndirect' = ndirect + 1 /\ nitem' = nitem)
            => /\ cSubscription' \notin UsedBefore
               /\ cSubscription' = directPut'
               /\ cbuf'[cSubscription'] = << >>
               /\ SubscriptionProperty' = NoSub
               /\ TaskLive(getTask) => getTask'.mustCancel
               /\ cbuf' = cbuf
               /\ UNCHANGED << cShouldClose, cReady, cPc >>
      ]_vars

\* C22 witness: stop() was called while the direct feed of __init__ was
\* active with an unread item and a wait in flight: the new queue is
\* active and empty, the item is still in the old queue, and the wait's
\* task has a cancellation requested.
C22_Witness ==
    /\ ndirect = 1
    /\ cSubscription = Direct(1)
    /\ directPut = Direct(1)
    /\ cbuf[Direct(1)] = << >>
    /\ cbuf[Direct(0)] # << >>
    /\ cbuf[Ext1] = << >> /\ cbuf[Ext2] = << >>
    /\ getTask.sub = Direct(0)
    /\ getTask.mustCancel
    /\ cPc = "await"

\* The wait of _get() has ended with an error of the subscription and
\* _get() has not yet been resumed.
WaitFailed == cPc = "await" /\ getTask.st \in FailedStates

\* C23: when the wait of _get() ends with SubscriptionClosed or with any
\* other error, no error reaches the caller; the failing wait and the
\* resumption of _get() leave the shutdown flag, readiness and the active
\* subscription as they are; an open consumer then starts a new wait
\* against the active subscription, and the wait goes on until it returns
\* an item, the consumer is closed, or it is suspended on the (empty)
\* active subscription again.
C23_WaitErrorsAreSwallowed ==
    /\ [](cRet.kind # "error")
    /\ [][ (nfail' # nfail)
             => UNCHANGED << cShouldClose, cReady, cSubscription, directPut,
                             cPc, cRet, cbuf >> ]_vars
    /\ [][ (WaitFailed /\ (getTask' # getTask \/ cPc' # cPc))
             => /\ UNCHANGED << cShouldClose, cReady, cSubscription,
                                directPut, cbuf >>
                /\ IF cShouldClose
                   THEN cRet'.kind = "closed"
                   ELSE /\ getTask' = NewTask(cSubscription)
                        /\ cPc' = "await"
                        /\ cRet' = cRet ]_vars
    /\ (( WaitFailed /\ ~cShouldClose )
          ~> \/ cPc = "idle"
             \/ cShouldClose
             \/ /\ getTask.st = "waiting"
                /\ getTask.sub = cSubscription
                /\ ~getTask.mustCancel)

\* C23 witness: the consumer's only wait failed once on the external
\* subscription and then returned the only item ever put, which arrived
\* on that subscription.
C23_Witness ==
    /\ nfail = 1
    /\ nitem = 1
    /\ cPc = "idle"
    /\ cRet.kind = "value"
    /\ cRet.val = 1
    /\ cRet.src = Ext1
    /\ getTask.st = "done"
    /\ cSubscription = Ext1
    /\ ~cShouldClose

\* The items the worker process has put on the cross-process queue.
Produced == [i \in 1..nproc |-> i]

IsPrefix(s, t) == Len(s) <= Len(t) /\ \A i \in 1..Len(s) : s[i] = t[i]

\* C24: process-bridged producer: what Queue1 has received is a prefix of
\* what the worker process has put, as long as Queue1 was subscribed before
\* the first item and has not been subscribed again after close() removed
\* it.
C24_DeliveredIsPrefixOfProduced ==
    (early /\ (closePc # "closed" \/ Queue1 \notin subscriptions))
        => IsPrefix(qbuf[Queue1], Produced)

\* C24 witness: Queue1, subscribed before the first item and still
\* registered, holds both items the worker process put.
C24_Witness ==
    /\ early
    /\ closePc = "open"
    /\ Queue1 \in subscriptions
    /\ nproc >= 2
    /\ qbuf[Queue1] = << 1, 2 >>

\* Only the direct feed built by __init__ was ever active or fed, and the
\* consumer is open.
DirectOnly ==
    /\ ndirect = 0
    /\ cSubscription = Direct(0)
    /\ \A q \in ExtSubs : cbuf[q] = << >>
    /\ ~cShouldClose

\* The last item a _get() returned (0 before the first return).
LastReturned == IF cRet.kind = "value" THEN cRet.val ELSE 0

\* The item the task of the running _get() has taken and _get() has not
\* yet returned.
InFlight ==
    IF cPc = "await" /\ getTask.st = "done" THEN << getTask.res >> ELSE << >>

\* C25: put_nowait(x) with the direct feed active appends x to the direct
\* feed and changes nothing else: the queue stays, the in-flight wait is
\* not cancelled, the flags stay; so with the direct feed alone the items
\* are returned once each in the order they were put: what was returned
\* last, what is in flight and what is buffered are consecutive.
C25_DirectFeedOnlyAppends ==
    /\ [][ (nitem' = nitem + 1 /\ cSubscription = directPut
              /\ \A q \in ExtSubs : cbuf'[q] = cbuf[q])
             => /\ cbuf' = [cbuf EXCEPT ![directPut] = Append(@, nitem + 1)]
                /\ UNCHANGED << directPut, cSubscription, ndirect,
                                cShouldClose, cReady, cPc, cRet >>
                /\ getTask'.mustCancel = getTask.mustCancel
                /\ (getTask'.st = "cancelled") => (getTask.st = "cancelled") ]_vars
    /\ [](DirectOnly
            => InFlight \o cbuf[Direct(0)]
                 = [i \in 1..(nitem - LastReturned) |-> LastReturned + i])

\* C25 witness: with the direct feed alone, two items were put, the first
\* was returned, and the second was returned by a later _get().
C25_Witness ==
    /\ DirectOnly
    /\ nitem = 2
    /\ cRet.kind = "value"
    /\ cRet.val = 2
    /\ cRet.src = Direct(0)
    /\ cbuf[Direct(0)] = << >>
    /\ cPc = "idle"

=============================================================================
